---- MODULE Spec2Model ----
(***************************************************************************)
(* Model of the loom-js Client (src/src/client.ts): the transaction commit *)
(* pipeline (middleware chain, result interpretation, nonce retry loop),   *)
(* the Contract-event subscription state machine and disconnect().         *)
(*                                                                         *)
(* The specifications of the module:                                       *)
(*   SpecCommit      one commitTxAsync call against an arbitrary write     *)
(*                   channel                                               *)
(*   SpecEvents      listener registration, push notifications,            *)
(*                   disconnect()                                          *)
(*   SpecNet         constructor arguments and channel lifecycle signals   *)
(*   SpecCalls       routing and results of the read-side calls            *)
(*   SpecConcurrent  two commitTxAsync calls in flight, with fairness      *)
(*   SpecInterpret   one attempt answered with any two-phase result        *)
(*   SpecBackoff     one commit under retry policies with their backoff    *)
(*                   bounds, with and without jitter                       *)
(*   SpecAbsent      one commit whose broadcasts may be answered with no   *)
(*                   result or with an empty one                           *)
(*   SpecClose       disconnect() step by step, also from inside a         *)
(*                   consumer callback, with lifecycle signals             *)
(*   SpecMutate      one commit while the application reassigns            *)
(*                   client.txMiddleware or mutates the list in place      *)
(***************************************************************************)
EXTENDS Integers, Sequences, FiniteSets, TLC

VARIABLES
    txMiddleware,        \* Client.txMiddleware: the client's default middleware list
    nonceRetryStrategy,  \* Client.nonceRetryStrategy
    call,                \* per commitTxAsync call: the closure state of the call
    hist,                \* per call: what an observer of the call has seen so far
    writeClient,         \* Client._writeClient: channel instance id
    readClient,          \* Client._readClient: channel instance id
    listeners,           \* the client's EventEmitter table: event kind -> Seq of registrations
    hooks,               \* TRUE while the constructor's newListener/removeListener hooks are registered
    msgListeners,        \* per channel: how many times emitContractEvent is attached to Message
    chan,                \* per channel: observed calls on the channel (on/removeListener/disconnect)
    noteCount,           \* number of notifications the read channel has delivered so far
    dispatch,            \* listener invocations of the emit() in progress, in call order
    seen,                \* the consumer invocations made since the latest notification arrived
    note,                \* the latest notification and what the client's handler did with it
    disconnects,         \* number of disconnect() calls made so far
    ctorArgs,            \* the writeClient/readClient arguments the constructor was given
    rpc,                 \* per channel and method: sendAsync calls the client has made
    reads                \* per read-side call (query, lookup): the state of the call

commitVars == <<txMiddleware, nonceRetryStrategy, call, hist>>
eventVars  == <<writeClient, readClient, listeners, hooks, msgListeners, chan,
                noteCount, dispatch, seen, note, disconnects>>
readVars   == <<ctorArgs, rpc, reads>>
vars == <<txMiddleware, nonceRetryStrategy, call, hist,
          writeClient, readClient, listeners, hooks, msgListeners, chan,
          noteCount, dispatch, seen, note, disconnects, ctorArgs, rpc, reads>>

(***************************************************************************)
(* Bounds                                                                  *)
(***************************************************************************)
MaxRetries == 2      \* retry policies with 0..MaxRetries retries (plus the default policy)
MaxMw == 2           \* middleware override lists of length 0..MaxMw
MaxListeners == 2    \* registrations held by the client at one time, all kinds together
MaxNotes == 2        \* push notifications delivered by the read channel
MaxDisconnects == 1  \* disconnect() calls
JitterSteps == 4     \* Math.random() takes the values j/JitterSteps, j < JitterSteps

(***************************************************************************)
(* Optional values: <<>> is absent (undefined), <<v>> is present.          *)
(***************************************************************************)
None == <<>>
Some(v) == <<v>>
IsSome(o) == Len(o) > 0
Get(o) == o[1]

RECURSIVE SeqsUpTo(_, _)
SeqsUpTo(S, n) ==
    IF n = 0 THEN {<<>>}
    ELSE LET shorter == SeqsUpTo(S, n - 1)
         IN  shorter \cup {Append(s, x) : s \in shorter, x \in S}

(***************************************************************************)
(* Wire encoding (crypto-utils): a base64 string is the sequence of its    *)
(* sextet values 0..63, with 64 standing for the padding character '='.    *)
(***************************************************************************)
B64Group(g) ==
    IF Len(g) = 1 THEN <<g[1] \div 4, (g[1] % 4) * 16, 64, 64>>
    ELSE IF Len(g) = 2
         THEN <<g[1] \div 4, (g[1] % 4) * 16 + g[2] \div 16, (g[2] % 16) * 4, 64>>
         ELSE <<g[1] \div 4, (g[1] % 4) * 16 + g[2] \div 16,
                (g[2] % 16) * 4 + g[3] \div 64, g[3] % 64>>

RECURSIVE Uint8ArrayToB64(_)
Uint8ArrayToB64(bytes) ==
    IF Len(bytes) = 0 THEN <<>>
    ELSE IF Len(bytes) <= 3 THEN B64Group(bytes)
    ELSE B64Group(SubSeq(bytes, 1, 3)) \o Uint8ArrayToB64(SubSeq(bytes, 4, Len(bytes)))

B64Quad(q) ==
    IF q[3] = 64 THEN <<q[1] * 4 + q[2] \div 16>>
    ELSE IF q[4] = 64
         THEN <<q[1] * 4 + q[2] \div 16, (q[2] % 16) * 16 + q[3] \div 4>>
         ELSE <<q[1] * 4 + q[2] \div 16, (q[2] % 16) * 16 + q[3] \div 4,
                (q[3] % 4) * 64 + q[4]>>

RECURSIVE B64ToUint8Array(_)
B64ToUint8Array(str) ==
    IF Len(str) < 4 THEN <<>>
    ELSE B64Quad(SubSeq(str, 1, 4)) \o B64ToUint8Array(SubSeq(str, 5, Len(str)))

(***************************************************************************)
(* Values a promise settles with.  An error value keeps what the code      *)
(* tests: `err instanceof Error` and `err.message`.  A message is the      *)
(* sequence of the parts the template literal concatenates.                *)
(***************************************************************************)
INVALID_TX_NONCE_ERROR == <<"Invalid tx nonce">>

Resolved(data)        == [kind |-> "ok",  isError |-> FALSE, message |-> <<>>, data |-> data]
Thrown(isErr, msg)    == [kind |-> "err", isError |-> isErr, message |-> msg,  data |-> None]
NewError(msg)         == Thrown(TRUE, msg)
NoOutcome             == [kind |-> "none", isError |-> FALSE, message |-> <<>>, data |-> None]

isInvalidTxNonceError(err) ==
    err.kind = "err" /\ err.isError /\ err.message = INVALID_TX_NONCE_ERROR

\* What a middleware or the write channel may reject with: the nonce error
\* itself, another Error, and a non-Error object that carries the same message.
ThrownValues ==
    { NewError(INVALID_TX_NONCE_ERROR),
      NewError(<<"boom">>),
      Thrown(FALSE, INVALID_TX_NONCE_ERROR) }

(***************************************************************************)
(* Transactions and middleware                                             *)
(***************************************************************************)
Txs == {"t1", "t2"}
serializeBinary(tx) == IF tx = "t1" THEN <<1>> ELSE <<2, 250>>

Middlewares == {"A", "B"}
\* Two transforms that do not commute: A appends a byte, B prefixes the length.
Handle(m, txData) ==
    IF m = "A" THEN Append(txData, 7) ELSE <<100 + Len(txData)>> \o txData

DefaultLists == {<<"A">>, <<"B", "A">>}
Overrides == {None} \cup {Some(l) : l \in SeqsUpTo(Middlewares, MaxMw)}

\* `const { middleware = this.txMiddleware } = opts`
DefaultOnlyMiddleware(optsMiddleware, clientMiddleware) == clientMiddleware
SelectMiddleware(optsMiddleware, clientMiddleware) ==
    IF IsSome(optsMiddleware) THEN Get(optsMiddleware) ELSE clientMiddleware

\* The pipeline as one fold, M_n(...(M_1(b))): the reference the stepwise
\* loop of _commitTxAsync is compared with.
RECURSIVE ApplyAll(_, _)
ApplyAll(list, b) ==
    IF Len(list) = 0 THEN b ELSE ApplyAll(Tail(list), Handle(Head(list), b))

(***************************************************************************)
(* Retry policy and the retry operation                                    *)
(***************************************************************************)
DefaultRetries == 5
DefaultMinTimeout == 500
DefaultMaxTimeout == 5000
\* a policy with the default backoff bounds whose durations carry no jitter
Policy(r) ==
    [retries |-> r, minTimeout |-> DefaultMinTimeout, maxTimeout |-> DefaultMaxTimeout,
     randomize |-> FALSE]
Policies == {Policy(r) : r \in (0..MaxRetries) \cup {DefaultRetries}}
\* policies with minTimeout <= maxTimeout, with and without jitter
TimedPolicies ==
    { [retries |-> r, minTimeout |-> b[1], maxTimeout |-> b[2], randomize |-> j] :
        r \in (0..MaxRetries) \cup {DefaultRetries},
        b \in {<<DefaultMinTimeout, DefaultMaxTimeout>>, <<2, 5>>, <<3, 3>>},
        j \in BOOLEAN }

\* retry.timeouts(options): timeout number `attempt` (from 0) is
\* Math.min(Math.round(random * minTimeout * Math.pow(factor, attempt)), maxTimeout)
\* with random = Math.random() + 1 under randomize and 1 otherwise; the
\* library's default factor is 2.
Factor == 2
RECURSIVE Pow(_, _)
Pow(b, e) == IF e = 0 THEN 1 ELSE b * Pow(b, e - 1)
\* the values j with Math.random() = j / JitterSteps
Randoms(options) == IF options.randomize THEN 0..(JitterSteps - 1) ELSE {0}

CreateTimeoutUncapped(attempt, opts, j) ==
    LET num == (JitterSteps + j) * opts.minTimeout * Pow(Factor, attempt)
    IN  (2 * num + JitterSteps) \div (2 * JitterSteps)
CreateTimeout(attempt, opts, j) ==
    LET num == (JitterSteps + j) * opts.minTimeout * Pow(Factor, attempt)
        rounded == (2 * num + JitterSteps) \div (2 * JitterSteps)
    IN  IF rounded < opts.maxTimeout THEN rounded ELSE opts.maxTimeout

\* timeouts.sort((a, b) => a - b)
RECURSIVE SortAsc(_)
SortAsc(seq) ==
    IF Len(seq) <= 1 THEN seq
    ELSE LET k == CHOOSE i \in 1..Len(seq) : \A j \in 1..Len(seq) : seq[i] <= seq[j]
         IN  <<seq[k]>> \o SortAsc(SubSeq(seq, 1, k - 1) \o SubSeq(seq, k + 1, Len(seq)))

\* the lists of timeouts retry.timeouts(options) may return, one per outcome
\* of its Math.random() calls
Timeouts(options) ==
    { SortAsc([i \in 1..options.retries |-> CreateTimeout(i - 1, options, js[i])]) :
        js \in [1..options.retries -> Randoms(options)] }

\* retry.operation(options): one timeout per permitted retry
SharedOperationTimeouts(options) ==
    options.retries - Cardinality({c \in DOMAIN call : call[c].pc # "idle"})
OperationTimeouts(options) == options.retries

\* op.retry(err): schedules another attempt iff a timeout is left
OpRetryOffByOne(timeouts) == timeouts > 1
OpRetry(timeouts) == timeouts > 0

\* line 249: err instanceof Error && err.message === INVALID_TX_NONCE_ERROR
AnyErrorRetryable(err) == err.isError
IsRetryable(err) == err.isError /\ err.message = INVALID_TX_NONCE_ERROR

(***************************************************************************)
(* Result Interpreter: the body of _commitTxAsync after sendAsync resolves *)
(***************************************************************************)
NonceLog == "sequence number does not match"
Codes == {None, Some(0), Some(1), Some(2)}
Logs  == {None, Some(""), Some(NonceLog), Some("out of gas")}
Datas == {None, Some(Uint8ArrayToB64(<<104, 105>>))}
CheckTxs   == [code : Codes, log : Logs]
DeliverTxs == [code : Codes, log : Logs, data : Datas]
\* sendAsync resolves with a result object, or with nothing
SendResults == {None} \cup {Some(r) : r \in [check_tx : CheckTxs, deliver_tx : DeliverTxs]}

\* the results the write channel answers with in SpecCommit: every branch of
\* the interpreter, for the check phase and for the deliver phase
AttemptChecks ==
    { [code |-> Some(0), log |-> None], [code |-> None, log |-> Some(NonceLog)],
      [code |-> Some(1), log |-> Some(NonceLog)], [code |-> Some(1), log |-> Some("out of gas")],
      [code |-> Some(2), log |-> Some(NonceLog)], [code |-> Some(1), log |-> None] }
AttemptDelivers ==
    { [code |-> Some(0), log |-> None, data |-> None],
      [code |-> None, log |-> Some(NonceLog), data |-> Some(Uint8ArrayToB64(<<104, 105>>))],
      [code |-> Some(1), log |-> Some(NonceLog), data |-> None],
      [code |-> Some(2), log |-> Some("out of gas"), data |-> Some(Uint8ArrayToB64(<<104, 105>>))],
      [code |-> Some(1), log |-> None, data |-> None] }
AttemptResults ==
    {None} \cup {Some([check_tx |-> c, deliver_tx |-> d]) : c \in AttemptChecks, d \in AttemptDelivers}

CodeOrZero(code) == IF IsSome(code) THEN Get(code) ELSE 0
Truthy(str) == IsSome(str) /\ Get(str) # ""
CommitError(detail) == NewError(<<"Failed to commit Tx: ", detail>>)
\* line 294 on a falsy result (undefined, null): result.deliver_tx throws
ThrowsNonceError == NewError(INVALID_TX_NONCE_ERROR)
TypeError == NewError(<<"TypeError: Cannot read property 'deliver_tx' of undefined">>)
\* line 275 on a result object without phases ({}): result.check_tx.code throws
EmptyObject == [empty |-> TRUE]
HasPhases(r) == "check_tx" \in DOMAIN r
TypeErrorOfCode == NewError(<<"TypeError: Cannot read property 'code' of undefined">>)

IsNonceCheck(check_tx) == check_tx.code = Some(1) /\ check_tx.log = Some(NonceLog)

InterpretDeliverNonce(result) ==
    IF ~IsSome(result) THEN TypeError
    ELSE LET r == Get(result) IN
         IF CodeOrZero(r.check_tx.code) # 0 THEN
             IF ~Truthy(r.check_tx.log) THEN CommitError(ToString(Get(r.check_tx.code)))
             ELSE IF IsNonceCheck(r.check_tx) THEN NewError(INVALID_TX_NONCE_ERROR)
             ELSE CommitError(Get(r.check_tx.log))
         ELSE IF CodeOrZero(r.deliver_tx.code) # 0 THEN
             IF ~Truthy(r.deliver_tx.log) THEN CommitError(ToString(Get(r.deliver_tx.code)))
             ELSE IF r.deliver_tx.code = Some(1) /\ r.deliver_tx.log = Some(NonceLog)
                  THEN NewError(INVALID_TX_NONCE_ERROR)
             ELSE CommitError(Get(r.deliver_tx.log))
         ELSE IF Truthy(r.deliver_tx.data)
              THEN Resolved(Some(B64ToUint8Array(Get(r.deliver_tx.data))))
              ELSE Resolved(None)

InterpretDeliverFirst(result) ==
    IF ~IsSome(result) THEN TypeError
    ELSE LET r == Get(result) IN
         IF CodeOrZero(r.deliver_tx.code) # 0 THEN
             IF ~Truthy(r.deliver_tx.log) THEN CommitError(ToString(Get(r.deliver_tx.code)))
             ELSE CommitError(Get(r.deliver_tx.log))
         ELSE IF CodeOrZero(r.check_tx.code) # 0 THEN
             IF ~Truthy(r.check_tx.log) THEN CommitError(ToString(Get(r.check_tx.code)))
             ELSE IF IsNonceCheck(r.check_tx) THEN NewError(INVALID_TX_NONCE_ERROR)
             ELSE CommitError(Get(r.check_tx.log))
         ELSE IF Truthy(r.deliver_tx.data)
              THEN Resolved(Some(B64ToUint8Array(Get(r.deliver_tx.data))))
              ELSE Resolved(None)

Interpret(result) ==
    IF ~IsSome(result) THEN TypeError
    ELSE IF ~HasPhases(Get(result)) THEN TypeErrorOfCode
    ELSE LET r == Get(result) IN
         IF CodeOrZero(r.check_tx.code) # 0 THEN
             IF ~Truthy(r.check_tx.log) THEN CommitError(ToString(Get(r.check_tx.code)))
             ELSE IF IsNonceCheck(r.check_tx) THEN NewError(INVALID_TX_NONCE_ERROR)
             ELSE CommitError(Get(r.check_tx.log))
         ELSE IF CodeOrZero(r.deliver_tx.code) # 0 THEN
             IF ~Truthy(r.deliver_tx.log) THEN CommitError(ToString(Get(r.deliver_tx.code)))
             ELSE CommitError(Get(r.deliver_tx.log))
         ELSE IF Truthy(r.deliver_tx.data)
              THEN Resolved(Some(B64ToUint8Array(Get(r.deliver_tx.data))))
              ELSE Resolved(None)

(***************************************************************************)
(* Remote calls.  Every method of the client names the channel it sends    *)
(* on: broadcast_tx_commit goes to _writeClient, every other method to     *)
(* _readClient.                                                            *)
(***************************************************************************)
CommitMethod == "broadcast_tx_commit"
ReadMethods == {"query", "evmtxreceipt", "nonce", "getevmlogs", "newevmfilter", "evmsubscribe"}
Methods == {CommitMethod} \cup ReadMethods

RouteNonceToWrite(method) ==
    IF method \in {CommitMethod, "nonce"} THEN writeClient ELSE readClient
Route(method) == IF method = CommitMethod THEN writeClient ELSE readClient

\* channel.sendAsync(method, params): one more call of `method` on the channel
SendAsyncTwice(log, ch, method) == [log EXCEPT ![ch][method] = @ + 2]
SendAsync(log, ch, method) == [log EXCEPT ![ch][method] = @ + 1]

(***************************************************************************)
(* commitTxAsync: one call is the closure {tx, middleware, op} plus the    *)
(* position of its current attempt.                                        *)
(*   pc = "idle"        commitTxAsync not called yet                       *)
(*        "middleware"  awaiting middleware[i].Handle(txBytes)             *)
(*        "send"        awaiting sendAsync('broadcast_tx_commit', ...)     *)
(*        "backoff"     op.retry() armed the timer of the next attempt     *)
(*        "done"        resolve or reject has been called                  *)
(* `middleware` is a reference to an array: `shared` tells whether it is   *)
(* the array that client.txMiddleware refers to at present; `cur` is the   *)
(* middleware whose Handle call is being awaited.  `timeouts` counts the   *)
(* timeouts the retry operation has left, `delays` are their durations and *)
(* `wait` is the duration of the latest backoff.                           *)
(***************************************************************************)
Calls == {1}

IdleCall ==
    [pc |-> "idle", tx |-> "t1", middleware |-> <<>>, shared |-> FALSE,
     timeouts |-> 0, delays |-> <<>>, wait |-> 0, attempts |-> 0,
     txBytes |-> <<>>, i |-> 0, cur |-> "none", settled |-> NoOutcome, settles |-> 0]

\* Observations of a call: the middleware list in effect when the call was
\* made, what was sent, which middleware ran in the current attempt, and how
\* the last finished attempt ended.
IdleHist ==
    [opts |-> None, retries |-> 0, list |-> <<>>,
     sends |-> 0, payload |-> None, sentThisAttempt |-> FALSE,
     mwRun |-> <<>>, mwTotal |-> 0,
     lastStage |-> "none", lastResult |-> None, lastOutcome |-> NoOutcome,
     allNonceCheck |-> TRUE]

\* lines 267-273: the loop test, then either the next Handle call or sendAsync
Step(cl, h) ==
    IF cl.i < Len(cl.middleware)
    THEN [call |-> [cl EXCEPT !.pc = "middleware", !.cur = cl.middleware[cl.i + 1]],
          hist |-> [h EXCEPT !.mwRun = Append(@, [mw |-> cl.middleware[cl.i + 1],
                                                   input |-> cl.txBytes]),
                             !.mwTotal = @ + 1],
          rpc |-> rpc]
    ELSE [call |-> [cl EXCEPT !.pc = "send"],
          hist |-> [h EXCEPT !.sends = @ + 1,
                             !.sentThisAttempt = TRUE,
                             !.payload = Some(Uint8ArrayToB64(cl.txBytes))],
          rpc |-> SendAsync(rpc, Route(CommitMethod), CommitMethod)]

\* line 245-246, 266: the attempt callback runs _commitTxAsync up to its first await
StartAttemptKeepsBytes(cl, h) ==
    Step([cl EXCEPT !.attempts = @ + 1,
                    !.txBytes = IF cl.attempts = 0 THEN serializeBinary(cl.tx) ELSE @,
                    !.i = 0],
         [h EXCEPT !.mwRun = <<>>, !.sentThisAttempt = FALSE,
                   !.lastStage = "none", !.lastResult = None, !.lastOutcome = NoOutcome])
StartAttempt(cl, h) ==
    Step([cl EXCEPT !.attempts = @ + 1, !.txBytes = serializeBinary(cl.tx), !.i = 0],
         [h EXCEPT !.mwRun = <<>>, !.sentThisAttempt = FALSE,
                   !.lastStage = "none", !.lastResult = None, !.lastOutcome = NoOutcome])

\* lines 247-257: .then(resolve).catch(...)
FinishWithoutReject(cl, outcome) ==
    IF outcome.kind = "ok"
    THEN [cl EXCEPT !.pc = "done", !.settled = outcome, !.settles = @ + 1]
    ELSE IF IsRetryable(outcome) /\ OpRetry(cl.timeouts)
         THEN [cl EXCEPT !.pc = "backoff", !.timeouts = @ - 1]
         ELSE IF IsRetryable(outcome) THEN [cl EXCEPT !.pc = "done"]
         ELSE [cl EXCEPT !.pc = "done", !.settled = outcome, !.settles = @ + 1]
RetryWithoutBackoff(cl, outcome) ==
    IF outcome.kind = "ok"
    THEN [cl EXCEPT !.pc = "done", !.settled = outcome, !.settles = @ + 1]
    ELSE IF IsRetryable(outcome) /\ OpRetry(cl.timeouts)
         THEN [cl EXCEPT !.pc = "send", !.timeouts = @ - 1, !.attempts = @ + 1]
         ELSE [cl EXCEPT !.pc = "done", !.settled = outcome, !.settles = @ + 1]
Finish(cl, outcome) ==
    IF outcome.kind = "ok"
    THEN [cl EXCEPT !.pc = "done", !.settled = outcome, !.settles = @ + 1]
    ELSE IF IsRetryable(outcome) /\ OpRetry(cl.timeouts)
         THEN [cl EXCEPT !.pc = "backoff", !.timeouts = @ - 1,
                         !.wait = Head(cl.delays), !.delays = Tail(@)]
         ELSE [cl EXCEPT !.pc = "done", !.settled = outcome, !.settles = @ + 1]

Observe(h, stage, result, outcome) ==
    [h EXCEPT !.lastStage = stage, !.lastResult = result, !.lastOutcome = outcome,
              !.allNonceCheck = @ /\ stage = "sendResolve" /\ IsSome(result)
                                  /\ HasPhases(Get(result))
                                  /\ IsNonceCheck(Get(result).check_tx)]

CommitTxAsync(c, tx, opts) ==
    /\ call[c].pc = "idle"
    /\ \E ts \in Timeouts(nonceRetryStrategy) :
       LET cl == [call[c] EXCEPT !.tx = tx,
                                 !.middleware = SelectMiddleware(opts, txMiddleware),
                                 !.shared = ~IsSome(opts),
                                 !.timeouts = OperationTimeouts(nonceRetryStrategy),
                                 !.delays = ts]
           h  == [hist[c] EXCEPT !.opts = opts, !.retries = nonceRetryStrategy.retries,
                                 !.list = SelectMiddleware(opts, txMiddleware)]
           n  == StartAttempt(cl, h)
       IN  /\ call' = [call EXCEPT ![c] = n.call]
           /\ hist' = [hist EXCEPT ![c] = n.hist]
           /\ rpc' = n.rpc
    /\ UNCHANGED <<txMiddleware, nonceRetryStrategy>>
    /\ UNCHANGED <<eventVars, ctorArgs, reads>>

\* line 268: the awaited Handle call resolves with the transformed bytes
MiddlewareResolve(c) ==
    /\ call[c].pc = "middleware"
    /\ LET cl == call[c]
           out == Handle(cl.cur, cl.txBytes)
           n == Step([cl EXCEPT !.txBytes = out, !.i = @ + 1], hist[c])
       IN  /\ call' = [call EXCEPT ![c] = n.call]
           /\ hist' = [hist EXCEPT ![c] = n.hist]
           /\ rpc' = n.rpc
    /\ UNCHANGED <<txMiddleware, nonceRetryStrategy>>
    /\ UNCHANGED <<eventVars, ctorArgs, reads>>

\* line 268: an awaited Handle call that rejects makes _commitTxAsync reject
\* with the same value; nothing after the await runs
SkipFailedMiddleware(cl, h, err) ==
    Step([cl EXCEPT !.i = @ + 1], Observe(h, "middleware", None, err))
HandleRejected(cl, h, err) ==
    [call |-> Finish(cl, err), hist |-> Observe(h, "middleware", None, err), rpc |-> rpc]

MiddlewareReject(c, err) ==
    /\ call[c].pc = "middleware"
    /\ LET n == HandleRejected(call[c], hist[c], err)
       IN  /\ call' = [call EXCEPT ![c] = n.call]
           /\ hist' = [hist EXCEPT ![c] = n.hist]
           /\ rpc' = n.rpc
    /\ UNCHANGED <<txMiddleware, nonceRetryStrategy>>
    /\ UNCHANGED <<eventVars, ctorArgs, reads>>

\* lines 270-297: sendAsync resolves and the result is interpreted
SendResolve(c, result) ==
    /\ call[c].pc = "send"
    /\ call' = [call EXCEPT ![c] = Finish(call[c], Interpret(result))]
    /\ hist' = [hist EXCEPT ![c] = Observe(hist[c], "sendResolve", result, Interpret(result))]
    /\ UNCHANGED <<txMiddleware, nonceRetryStrategy>>
    /\ UNCHANGED <<eventVars, readVars>>

\* line 270: sendAsync rejects
SendReject(c, err) ==
    /\ call[c].pc = "send"
    /\ call' = [call EXCEPT ![c] = Finish(call[c], err)]
    /\ hist' = [hist EXCEPT ![c] = Observe(hist[c], "sendReject", None, err)]
    /\ UNCHANGED <<txMiddleware, nonceRetryStrategy>>
    /\ UNCHANGED <<eventVars, readVars>>

\* the timer armed by op.retry() fires and runs the attempt callback again
BackoffElapsed(c) ==
    /\ call[c].pc = "backoff"
    /\ LET n == StartAttempt(call[c], hist[c])
       IN  /\ call' = [call EXCEPT ![c] = n.call]
           /\ hist' = [hist EXCEPT ![c] = n.hist]
           /\ rpc' = n.rpc
    /\ UNCHANGED <<txMiddleware, nonceRetryStrategy>>
    /\ UNCHANGED <<eventVars, ctorArgs, reads>>

(***************************************************************************)
(* The application and the middleware lists.  commitTxAsync keeps the      *)
(* array it was given (opts.middleware, or the array client.txMiddleware   *)
(* referred to) and _commitTxAsync reads middleware.length and             *)
(* middleware[i] from it at every turn of its loop.                        *)
(***************************************************************************)
Lists == SeqsUpTo(Middlewares, MaxMw)
Suspended(cl) == cl.pc \in {"middleware", "send", "backoff"}

\* the contents of an array after one push, one splice(i, 1) or a reverse()
Mutations(list) ==
    ( {Append(list, m) : m \in {x \in Middlewares : Len(list) < MaxMw}}
      \cup {SubSeq(list, 1, i - 1) \o SubSeq(list, i + 1, Len(list)) : i \in 1..Len(list)}
      \cup {[i \in 1..Len(list) |-> list[Len(list) + 1 - i]]} ) \ {list}

\* client.txMiddleware = [...]: the property refers to a new array
AssignTxMiddleware(list) ==
    /\ txMiddleware' = list
    /\ call' = [c \in DOMAIN call |-> [call[c] EXCEPT !.shared = FALSE]]
    /\ UNCHANGED <<nonceRetryStrategy, hist>>
    /\ UNCHANGED <<eventVars, readVars>>

\* push/splice/reverse/sort on the array that call c holds, while the call is
\* suspended: every holder of that array sees the new contents
MutateInPlace(c, list) ==
    /\ Suspended(call[c])
    /\ list \in Mutations(call[c].middleware)
    /\ call' = [d \in DOMAIN call |->
                   IF d = c \/ (call[c].shared /\ call[d].shared /\ call[d].pc # "idle")
                   THEN [call[d] EXCEPT !.middleware = list]
                   ELSE call[d]]
    /\ txMiddleware' = IF call[c].shared THEN list ELSE txMiddleware
    /\ UNCHANGED <<nonceRetryStrategy, hist>>
    /\ UNCHANGED <<eventVars, readVars>>

(***************************************************************************)
(* Read-side calls: queryAsync and the lookup helpers.  Each is one        *)
(* sendAsync on its channel, then the decoding of the raw result.          *)
(***************************************************************************)
\* what a helper resolves with
Undefined  == [type |-> "undefined", value |-> <<>>]
Null       == [type |-> "null", value |-> <<>>]
Bytes(b)   == [type |-> "bytes", value |-> b]
Receipt(b) == [type |-> "receipt", value |-> b]
Raw(r)     == [type |-> "raw", value |-> r]

\* raw results of the read channel: nothing, the empty string, a base64 string
ReadResults == {None, Some(<<>>), Some(Uint8ArrayToB64(<<104, 105>>))}
\* `if (result)` on a string result
NonEmpty(result) == IsSome(result) /\ Get(result) # <<>>

DecodeEmptyAsValue(method, result) ==
    IF method = "query"
    THEN IF IsSome(result) THEN Bytes(B64ToUint8Array(Get(result))) ELSE Undefined
    ELSE IF method = "evmtxreceipt"
    THEN IF IsSome(result) THEN Receipt(B64ToUint8Array(Get(result))) ELSE Null
    ELSE Raw(result)
Decode(method, result) ==
    IF method = "query"
    THEN IF NonEmpty(result) THEN Bytes(B64ToUint8Array(Get(result))) ELSE Undefined
    ELSE IF method = "evmtxreceipt"
    THEN IF NonEmpty(result) THEN Receipt(B64ToUint8Array(Get(result))) ELSE Null
    ELSE IF method = "getevmlogs"
    THEN IF NonEmpty(result) THEN Bytes(B64ToUint8Array(Get(result))) ELSE Null
    ELSE IF method = "newevmfilter"
    THEN IF NonEmpty(result) THEN Raw(result) ELSE Null
    ELSE Raw(result)    \* nonce, evmsubscribe: the promise of sendAsync is returned as it is

ReadIds == {1}
IdleRead ==
    [pc |-> "idle", method |-> "query", inHandle |-> FALSE, result |-> None, settled |-> None]

\* queryAsync, getEvmTxReceiptAsync, getNonceAsync, ...: the call is made and
\* suspends at its sendAsync; inHandle records that a commit was awaiting a
\* middleware at that moment (the call may come from inside its Handle)
ReadAsync(r, method) ==
    /\ reads[r].pc = "idle"
    /\ reads' = [reads EXCEPT ![r] =
                    [pc |-> "pending", method |-> method,
                     inHandle |-> \E c \in DOMAIN call : call[c].pc = "middleware",
                     result |-> None, settled |-> None]]
    /\ rpc' = SendAsync(rpc, Route(method), method)
    /\ UNCHANGED <<commitVars, eventVars, ctorArgs>>

\* the awaited sendAsync resolves and the helper returns
ReadResolve(r, result) ==
    /\ reads[r].pc = "pending"
    /\ reads' = [reads EXCEPT ![r].pc = "done",
                              ![r].result = result,
                              ![r].settled = Some(Decode(reads[r].method, result))]
    /\ UNCHANGED <<commitVars, eventVars, ctorArgs, rpc>>

(***************************************************************************)
(* Channels.  A constructor argument is a URL string or a preconstructed   *)
(* channel object; `new WSRPCClient(url)` makes a fresh instance.          *)
(***************************************************************************)
Url(u)       == [type |-> "string", ref |-> u]
Client(o)    == [type |-> "client", ref |-> o]
ClientUrl(o) == IF o = "cA" THEN "u1" ELSE "u2"

WriteArgs == {Url("u1"), Client("cA")}
ReadArgs  == {None} \cup {Some(a) : a \in {Url("u1"), Url("u2"), Client("cA"), Client("cB")}}

NewWSRPCClient(role, u) == [obj |-> role, url |-> u]
AsChannel(role, arg) ==
    IF arg.type = "string" THEN NewWSRPCClient(role, arg.ref)
    ELSE [obj |-> arg.ref, url |-> ClientUrl(arg.ref)]

\* lines 171-196: which instances the two roles resolve to, and whether the
\* lifecycle handlers are registered a second time, on the read channel
ConstructorWiresReadAlways(writeArg, readArg) ==
    LET w == AsChannel("newWrite", writeArg)
    IN  IF ~IsSome(readArg) \/ writeArg = Get(readArg)
        THEN [write |-> w, read |-> w, readWired |-> TRUE]
        ELSE [write |-> w, read |-> AsChannel("newRead", Get(readArg)), readWired |-> TRUE]
ConstructorNeverShares(writeArg, readArg) ==
    LET w == AsChannel("newWrite", writeArg)
    IN  IF ~IsSome(readArg)
        THEN [write |-> w, read |-> w, readWired |-> FALSE]
        ELSE [write |-> w, read |-> AsChannel("newRead", Get(readArg)), readWired |-> TRUE]
Constructor(writeArg, readArg) ==
    LET w == AsChannel("newWrite", writeArg)
    IN  IF ~IsSome(readArg) \/ writeArg = Get(readArg)
        THEN [write |-> w, read |-> w, readWired |-> FALSE]
        ELSE [write |-> w, read |-> AsChannel("newRead", Get(readArg)), readWired |-> TRUE]

\* lines 173-181, 187-195: how many times the Error/Connected/Disconnected
\* handlers are registered on channel ch
Wired(c, ch) ==
    (IF ch = c.write THEN 1 ELSE 0) + (IF c.readWired /\ ch = c.read THEN 1 ELSE 0)

(***************************************************************************)
(* The client's EventEmitter.  A registration is {id, fn, once}: `once`    *)
(* registers a wrapper that removes itself before it calls fn; `epoch` is  *)
(* the number of disconnect() calls made before the registration.          *)
(***************************************************************************)
ContractKind == "contractEvent"
ErrorKind == "error"
ConnectedKind == "connected"
DisconnectedKind == "disconnected"
\* the kinds a push notification is translated into
Kinds == {ContractKind, ErrorKind}
ClientEvents == Kinds \cup {ConnectedKind, DisconnectedKind}
Fns == {"f", "g"}

Count(ls, kind) == Len(ls[kind])
Total(ls) ==
    Count(ls, ContractKind) + Count(ls, ErrorKind)
        + Count(ls, ConnectedKind) + Count(ls, DisconnectedKind)
NoListeners == [k \in ClientEvents |-> <<>>]

RegIds(ls) == UNION {{ls[k][i].id : i \in 1..Len(ls[k])} : k \in ClientEvents}
QueueIds(q) == {q[i].reg.id : i \in 1..Len(q)}
FreshId(ls, q) ==
    LET used == RegIds(ls) \cup QueueIds(q)
    IN  CHOOSE i \in 1..(Cardinality(used) + 1) :
            i \notin used /\ \A j \in 1..(i - 1) : j \in used

RemoveAt(seq, i) == SubSeq(seq, 1, i - 1) \o SubSeq(seq, i + 1, Len(seq))
Matches(seq, fn) == {i \in 1..Len(seq) : seq[i].fn = fn}
\* removeListener scans from the end of the list: the most recent match goes
LastMatch(seq, fn) == CHOOSE i \in Matches(seq, fn) : \A j \in Matches(seq, fn) : j <= i
IndexOfId(seq, id) == {i \in 1..Len(seq) : seq[i].id = id}

\* lines 201-205: the newListener hook runs before the listener is added
AttachOnEveryContractListener(event, count) == event = ContractKind
AttachOnAnyFirstListener(event, count) == count = 0
NewListenerHook(event, count) == event = ContractKind /\ count = 0

\* lines 207-211: the removeListener hook runs after the listener is removed
DetachOnEveryContractRemoval(event, count) == event = ContractKind
NeverDetaches(event, count) == FALSE
RemoveListenerHook(event, count) == event = ContractKind /\ count = 0

Attach(m, ch) == [m EXCEPT ![ch] = @ + 1]
Detach(m, ch) == [m EXCEPT ![ch] = IF @ > 0 THEN @ - 1 ELSE 0]

\* on()/removeListener() calls the last client operation made on each channel
Quiet(ch) == [c \in DOMAIN ch |-> [ch[c] EXCEPT !.ons = 0, !.offs = 0]]

\* lines 592-618: the event kind a notification is translated into, if any
TranslateResultFirst(event) ==
    IF event.result THEN Some(ContractKind)
    ELSE IF event.error THEN Some(ErrorKind)
    ELSE None
Translate(event) ==
    IF event.error THEN Some(ErrorKind)
    ELSE IF event.result THEN Some(ContractKind)
    ELSE None

\* emit('error') without an Error listener throws instead of dispatching
EmitThrows(ls, kind) == kind = ErrorKind /\ Count(ls, ErrorKind) = 0

\* emit() is called inside the handler: the handler returns once every
\* listener has been called
ReturnsBeforeDispatch(queue) == TRUE
HandlerReturned(queue) == queue = <<>>

RECURSIVE Repeat(_, _)
Repeat(x, n) == IF n = 0 THEN <<>> ELSE <<x>> \o Repeat(x, n - 1)

\* the listener calls of one emit(kind): a copy of the list at emit time
Targets(ls, id, run, kind) ==
    [i \in 1..Len(ls[kind]) |-> [note |-> id, run |-> run, kind |-> kind, reg |-> ls[kind][i]]]

RECURSIVE Runs(_, _, _, _)
Runs(ls, id, kind, k) ==
    IF k = 0 THEN <<>> ELSE Runs(ls, id, kind, k - 1) \o Targets(ls, id, k, kind)

\* no notification is being handled
NoNote ==
    [id |-> 0, error |-> FALSE, result |-> FALSE, regs |-> <<>>, attached |-> 0,
     live |-> TRUE, emits |-> <<>>, threw |-> FALSE, returned |-> TRUE]

(***************************************************************************)
(* Operations of the event side.  The application calls on, once,          *)
(* removeListener and disconnect between notifications, not from inside a  *)
(* consumer callback; the only change to the listener table during an      *)
(* emit() is a once-wrapper removing itself.                               *)
(***************************************************************************)
\* client.on(kind, fn) / client.once(kind, fn)
On(kind, fn, once) ==
    /\ note.returned
    /\ Total(listeners) < MaxListeners
    /\ LET attach == hooks /\ NewListenerHook(kind, Count(listeners, kind))
           reg == [id |-> FreshId(listeners, dispatch), fn |-> fn, once |-> once,
                   epoch |-> disconnects]
       IN  /\ listeners' = [listeners EXCEPT ![kind] = Append(@, reg)]
           /\ msgListeners' = IF attach THEN Attach(msgListeners, readClient) ELSE msgListeners
           /\ chan' = [Quiet(chan) EXCEPT ![readClient].ons = IF attach THEN 1 ELSE 0]
    /\ UNCHANGED <<writeClient, readClient, hooks, noteCount, dispatch, seen, note, disconnects>>
    /\ UNCHANGED <<commitVars, readVars>>

\* client.removeListener(kind, fn) for a registered fn
RemoveListener(kind, fn) ==
    /\ note.returned
    /\ Matches(listeners[kind], fn) # {}
    /\ LET rest == RemoveAt(listeners[kind], LastMatch(listeners[kind], fn))
           detach == hooks /\ RemoveListenerHook(kind, Len(rest))
       IN  /\ listeners' = [listeners EXCEPT ![kind] = rest]
           /\ msgListeners' = IF detach THEN Detach(msgListeners, readClient) ELSE msgListeners
           /\ chan' = [Quiet(chan) EXCEPT ![readClient].offs = IF detach THEN 1 ELSE 0]
    /\ UNCHANGED <<writeClient, readClient, hooks, noteCount, dispatch, seen, note, disconnects>>
    /\ UNCHANGED <<commitVars, readVars>>

\* The read channel emits Message: every attached copy of emitContractEvent
\* runs _emitContractEvent(url, event).
Message(error, result) ==
    /\ noteCount < MaxNotes
    /\ note.returned
    /\ LET id == noteCount + 1
           k == msgListeners[readClient]
           t == Translate([error |-> error, result |-> result])
           throws == k > 0 /\ IsSome(t) /\ EmitThrows(listeners, Get(t))
           queue == IF k = 0 \/ ~IsSome(t) \/ throws THEN <<>>
                    ELSE Runs(listeners, id, Get(t), k)
           emits == IF k = 0 \/ ~IsSome(t) THEN <<>>
                    ELSE IF throws THEN <<Get(t)>>
                    ELSE Repeat(Get(t), k)
       IN  /\ noteCount' = id
           /\ dispatch' = dispatch \o queue
           /\ note' = [id |-> id, error |-> error, result |-> result,
                       regs |-> listeners[ContractKind], attached |-> k,
                       live |-> disconnects = 0,
                       emits |-> emits, threw |-> throws,
                       returned |-> FALSE]
    /\ seen' = <<>>
    /\ chan' = Quiet(chan)
    /\ UNCHANGED <<writeClient, readClient, listeners, hooks, msgListeners, disconnects>>
    /\ UNCHANGED <<commitVars, readVars>>

\* emit() calls the next listener of its copy; a once-wrapper first removes itself
Invoke ==
    /\ dispatch # <<>>
    /\ LET e == Head(dispatch)
           at == IndexOfId(listeners[e.kind], e.reg.id)
           unwrap == e.reg.once /\ at # {}
           rest == IF unwrap THEN RemoveAt(listeners[e.kind], CHOOSE i \in at : TRUE)
                   ELSE listeners[e.kind]
           detach == unwrap /\ hooks /\ RemoveListenerHook(e.kind, Len(rest))
       IN  /\ listeners' = [listeners EXCEPT ![e.kind] = rest]
           /\ msgListeners' = IF detach THEN Detach(msgListeners, readClient) ELSE msgListeners
           /\ chan' = [Quiet(chan) EXCEPT ![readClient].offs = IF detach THEN 1 ELSE 0]
           /\ seen' = Append(seen, [note |-> e.note, run |-> e.run, kind |-> e.kind,
                                    reg |-> e.reg.id, fn |-> e.reg.fn,
                                    late |-> e.note # note.id \/ note.returned])
           /\ dispatch' = Tail(dispatch)
    /\ UNCHANGED <<writeClient, readClient, hooks, noteCount, note, disconnects>>
    /\ UNCHANGED <<commitVars, readVars>>

\* the message-arrived callback of the latest notification returns to the channel
Return ==
    /\ ~note.returned
    /\ HandlerReturned(dispatch)
    /\ note' = NoNote
    /\ seen' = <<>>
    /\ chan' = Quiet(chan)
    /\ UNCHANGED <<writeClient, readClient, listeners, hooks, msgListeners, noteCount,
                   dispatch, disconnects>>
    /\ UNCHANGED <<commitVars, readVars>>

\* line 221: the read channel is closed separately only if it is another instance
AlwaysClosesRead(w, r) == TRUE
ClosesRead(w, r) == r # w

\* lines 218-224.  removeAllListeners() removes the listeners of every other
\* event before those of 'removeListener', so the hook still sees the last
\* Contract listener go.
Disconnect ==
    /\ note.returned
    /\ disconnects < MaxDisconnects
    /\ LET detach == hooks /\ Count(listeners, ContractKind) > 0
                           /\ RemoveListenerHook(ContractKind, 0)
           afterHook == [Quiet(chan) EXCEPT ![readClient].offs = IF detach THEN 1 ELSE 0]
           afterWrite == [afterHook EXCEPT ![writeClient].closes = @ + 1]
       IN  /\ listeners' = NoListeners
           /\ hooks' = FALSE
           /\ msgListeners' = IF detach THEN Detach(msgListeners, readClient) ELSE msgListeners
           /\ chan' = IF ClosesRead(writeClient, readClient)
                      THEN [afterWrite EXCEPT ![readClient].closes = @ + 1]
                      ELSE afterWrite
    /\ disconnects' = disconnects + 1
    /\ UNCHANGED <<writeClient, readClient, noteCount, dispatch, seen, note>>
    /\ UNCHANGED <<commitVars, readVars>>

\* disconnect() has removed the listeners and has not yet returned: a
\* channel is still to be closed
Closing ==
    chan[writeClient].closes < disconnects \/ chan[readClient].closes < disconnects

\* the handler on the stack is that of a signal raised inside this disconnect()
RaisedByClose == IF note.returned THEN FALSE ELSE note.epoch = disconnects

\* line 219, reached from the application or from inside a consumer callback
\* (a callback of the emit in progress has been called)
DisconnectKeepsListeners ==
    /\ disconnects < MaxDisconnects
    /\ ~Closing
    /\ note.returned \/ seen # <<>>
    /\ disconnects' = disconnects + 1
    /\ chan' = Quiet(chan)
    /\ UNCHANGED <<listeners, hooks, msgListeners>>
    /\ UNCHANGED <<writeClient, readClient, noteCount, dispatch, seen, note>>
    /\ UNCHANGED <<commitVars, readVars>>
DisconnectStart ==
    /\ disconnects < MaxDisconnects
    /\ ~Closing
    /\ note.returned \/ seen # <<>>
    /\ LET detach == hooks /\ Count(listeners, ContractKind) > 0
                           /\ RemoveListenerHook(ContractKind, 0)
       IN  /\ listeners' = NoListeners
           /\ hooks' = FALSE
           /\ msgListeners' = IF detach THEN Detach(msgListeners, readClient) ELSE msgListeners
           /\ chan' = [Quiet(chan) EXCEPT ![readClient].offs = IF detach THEN 1 ELSE 0]
    /\ disconnects' = disconnects + 1
    /\ UNCHANGED <<writeClient, readClient, noteCount, dispatch, seen, note>>
    /\ UNCHANGED <<commitVars, readVars>>

\* lines 220-223: the next channel.disconnect() call, once the handler of a
\* signal that the previous one raised has returned
DisconnectClose ==
    /\ Closing
    /\ IF note.returned THEN TRUE ELSE note.epoch < disconnects
    /\ LET ch == IF chan[writeClient].closes < disconnects THEN writeClient ELSE readClient
       IN  chan' = [Quiet(chan) EXCEPT ![ch].closes = @ + 1]
    /\ UNCHANGED <<writeClient, readClient, listeners, hooks, msgListeners, noteCount,
                   dispatch, seen, note, disconnects>>
    /\ UNCHANGED <<commitVars, readVars>>

(***************************************************************************)
(* Lifecycle signals.  The constructor registers, on each channel it wires,*)
(* one handler per signal that calls _emitNetEvent(url, kind[, err]) with  *)
(* the URL the channel reports; the handlers stay registered for the life  *)
(* of the channel (disconnect() removes the client's listeners only).      *)
(***************************************************************************)
Signals == {ErrorKind, ConnectedKind, DisconnectedKind}

\* Channel ch raises `kind`: each registered handler runs _emitNetEvent, which
\* calls this.emit(kind, {kind, url[, error]}).  A handler that throws ends
\* the channel's own emit, so a later handler is not called.
Signal(ch, kind) ==
    /\ note.returned
    /\ LET n == chan[ch].wired
           id == noteCount + 1
           ev == [kind |-> kind, url |-> ch.url]
           throws == n > 0 /\ EmitThrows(listeners, kind)
           queue == IF n = 0 \/ throws THEN <<>>
                    ELSE Runs(listeners, id, kind, n)
           emits == IF n = 0 THEN <<>>
                    ELSE IF throws THEN <<ev>>
                    ELSE Repeat(ev, n)
       IN  /\ dispatch' = dispatch \o queue
           /\ note' = [id |-> id, ch |-> ch, kind |-> kind,
                       regs |-> listeners[kind],
                       live |-> disconnects = 0, epoch |-> disconnects,
                       before |-> <<call, reads>>,
                       emits |-> emits, threw |-> throws,
                       returned |-> FALSE]
    /\ seen' = <<>>
    /\ chan' = Quiet(chan)
    /\ UNCHANGED <<writeClient, readClient, listeners, hooks, msgListeners, noteCount,
                   disconnects>>
    /\ UNCHANGED <<commitVars, readVars>>

(***************************************************************************)
(* Specifications                                                          *)
(***************************************************************************)
\* the event side right after `new Client(chainId, writeArg, readArg)`
Constructed(writeArg, readArg) ==
    LET c == Constructor(writeArg, readArg)
    IN  /\ writeClient = c.write
        /\ readClient = c.read
        /\ listeners = NoListeners
        /\ hooks = TRUE
        /\ msgListeners = [ch \in {c.write, c.read} |-> 0]
        /\ chan = [ch \in {c.write, c.read} |->
                       [ons |-> 0, offs |-> 0, closes |-> 0, wired |-> Wired(c, ch)]]
        /\ ctorArgs = [write |-> writeArg, read |-> readArg]
        /\ rpc = [ch \in {c.write, c.read} |-> [m \in Methods |-> 0]]
        /\ noteCount = 0
        /\ dispatch = <<>>
        /\ seen = <<>>
        /\ note = NoNote
        /\ disconnects = 0

NoCalls ==
    /\ call = [c \in Calls |-> IdleCall]
    /\ hist = [c \in Calls |-> IdleHist]
    /\ reads = [r \in ReadIds |-> IdleRead]

InitCommit ==
    /\ txMiddleware \in DefaultLists
    /\ nonceRetryStrategy \in Policies
    /\ NoCalls
    /\ Constructed(Url("u1"), None)

NextCommit ==
    \E c \in Calls :
        \/ \E tx \in Txs, opts \in Overrides : CommitTxAsync(c, tx, opts)
        \/ MiddlewareResolve(c)
        \/ \E err \in ThrownValues : MiddlewareReject(c, err)
        \/ \E result \in AttemptResults : SendResolve(c, result)
        \/ \E err \in ThrownValues : SendReject(c, err)
        \/ BackoffElapsed(c)

SpecCommit == InitCommit /\ [][NextCommit]_vars

\* one shared channel (read endpoint omitted, or the same object given twice)
\* and two distinct channels
EventClients ==
    { <<Url("u1"), None>>, <<Client("cA"), Some(Client("cA"))>>, <<Url("u1"), Some(Url("u2"))>> }

InitEvents ==
    /\ txMiddleware = <<>>
    /\ nonceRetryStrategy = Policy(DefaultRetries)
    /\ NoCalls
    /\ \E args \in EventClients : Constructed(args[1], args[2])

NextEvents ==
    \/ \E kind \in Kinds, fn \in Fns, once \in BOOLEAN : On(kind, fn, once)
    \/ \E kind \in Kinds, fn \in Fns : RemoveListener(kind, fn)
    \/ \E error \in BOOLEAN, result \in BOOLEAN : Message(error, result)
    \/ Invoke
    \/ Return
    \/ Disconnect

SpecEvents == InitEvents /\ [][NextEvents]_vars

\* A client built from every combination of constructor arguments, with
\* Error consumers coming and going, one commit and one read-side call that
\* may be pending, and channels raising lifecycle signals.  Promise callbacks
\* and application calls do not run while a channel callback is on the stack.
OkResult ==
    Some([check_tx |-> [code |-> Some(0), log |-> None],
          deliver_tx |-> [code |-> Some(0), log |-> None, data |-> None]])

InitNet ==
    /\ txMiddleware = <<>>
    /\ nonceRetryStrategy = Policy(DefaultRetries)
    /\ NoCalls
    /\ \E w \in WriteArgs, r \in ReadArgs : Constructed(w, r)

NextNet ==
    \/ \E ch \in DOMAIN chan, kind \in Signals : Signal(ch, kind)
    \/ Invoke
    \/ Return
    \/ \E once \in BOOLEAN : On(ErrorKind, "f", once)
    \/ RemoveListener(ErrorKind, "f")
    \/ Disconnect
    \/ note.returned /\ CommitTxAsync(1, "t1", None)
    \/ note.returned /\ SendResolve(1, OkResult)
    \/ note.returned /\ \E method \in {"query", "nonce"} : ReadAsync(1, method)
    \/ note.returned /\ ReadResolve(1, None)

SpecNet == InitNet /\ [][NextNet]_vars

\* One commit, retried on nonce conflicts, beside one read-side call of any
\* method and a Contract consumer coming and going.
NonceResult ==
    Some([check_tx |-> [code |-> Some(1), log |-> Some(NonceLog)],
          deliver_tx |-> [code |-> Some(0), log |-> None, data |-> None]])

InitCalls ==
    /\ txMiddleware = <<"A">>
    /\ nonceRetryStrategy \in Policies
    /\ NoCalls
    /\ \E args \in EventClients : Constructed(args[1], args[2])

NextCalls ==
    \/ CommitTxAsync(1, "t1", None)
    \/ MiddlewareResolve(1)
    \/ \E result \in {OkResult, NonceResult} : SendResolve(1, result)
    \/ BackoffElapsed(1)
    \/ \E method \in ReadMethods : ReadAsync(1, method)
    \/ \E result \in ReadResults : ReadResolve(1, result)
    \/ On(ContractKind, "f", FALSE)
    \/ RemoveListener(ContractKind, "f")

SpecCalls == InitCalls /\ [][NextCalls]_vars

\* Two commitTxAsync calls in flight at once.  Every awaited middleware call
\* and every awaited sendAsync eventually completes, and the timer armed by
\* op.retry() eventually fires.
TwoCalls == {1, 2}
DeliverFailure ==
    Some([check_tx |-> [code |-> Some(0), log |-> None],
          deliver_tx |-> [code |-> Some(2), log |-> Some("out of gas"), data |-> None]])

InitConcurrent ==
    /\ txMiddleware = <<"A">>
    /\ nonceRetryStrategy \in {Policy(r) : r \in 0..MaxRetries}
    /\ call = [c \in TwoCalls |-> IdleCall]
    /\ hist = [c \in TwoCalls |-> IdleHist]
    /\ reads = [r \in ReadIds |-> IdleRead]
    /\ Constructed(Url("u1"), None)

NextConcurrent ==
    \E c \in TwoCalls :
        \/ CommitTxAsync(c, "t1", None)
        \/ MiddlewareResolve(c)
        \/ MiddlewareReject(c, NewError(<<"boom">>))
        \/ \E result \in {OkResult, NonceResult, DeliverFailure} : SendResolve(c, result)
        \/ SendReject(c, NewError(<<"boom">>))
        \/ BackoffElapsed(c)

Completions ==
    \A c \in TwoCalls :
        /\ WF_vars(MiddlewareResolve(c) \/ MiddlewareReject(c, NewError(<<"boom">>)))
        /\ WF_vars((\E result \in {OkResult, NonceResult, DeliverFailure} : SendResolve(c, result))
                      \/ SendReject(c, NewError(<<"boom">>)))
        /\ WF_vars(BackoffElapsed(c))

SpecConcurrent == InitConcurrent /\ [][NextConcurrent]_vars /\ Completions

\* One attempt answered with any two-phase result (or with nothing).
InitInterpret ==
    /\ txMiddleware = <<>>
    /\ nonceRetryStrategy = Policy(0)
    /\ NoCalls
    /\ Constructed(Url("u1"), None)

NextInterpret ==
    \/ CommitTxAsync(1, "t1", None)
    \/ \E result \in SendResults : SendResolve(1, result)

SpecInterpret == InitInterpret /\ [][NextInterpret]_vars

\* One commit whose broadcasts are answered with nothing, with an empty
\* object, with the nonce conflict or with success.
InitAbsent ==
    /\ txMiddleware \in DefaultLists
    /\ nonceRetryStrategy \in Policies
    /\ NoCalls
    /\ Constructed(Url("u1"), None)

NextAbsent ==
    \/ \E tx \in Txs : CommitTxAsync(1, tx, None)
    \/ MiddlewareResolve(1)
    \/ \E result \in {None, Some(EmptyObject), NonceResult, OkResult} : SendResolve(1, result)
    \/ BackoffElapsed(1)

SpecAbsent == InitAbsent /\ [][NextAbsent]_vars

\* disconnect() in its steps: the listeners are removed, then the channels
\* are closed one after the other.  A channel may raise a signal from inside
\* its disconnect() or at any time outside the call; while disconnect() runs
\* nothing else of the application runs, and an emit that was in progress
\* when a consumer callback called disconnect() goes on after it returns.
InitClose ==
    /\ txMiddleware = <<>>
    /\ nonceRetryStrategy = Policy(DefaultRetries)
    /\ NoCalls
    /\ \E args \in EventClients : Constructed(args[1], args[2])

NextClose ==
    \/ ~Closing /\ \E kind \in {ErrorKind, DisconnectedKind}, fn \in Fns : On(kind, fn, FALSE)
    \/ \E ch \in DOMAIN chan, kind \in {ErrorKind, DisconnectedKind} :
           /\ Closing => chan[ch].closes = disconnects
           /\ Signal(ch, kind)
    \/ (Closing => RaisedByClose) /\ Invoke
    \/ (Closing => RaisedByClose) /\ Return
    \/ DisconnectStart
    \/ DisconnectClose

SpecClose == InitClose /\ [][NextClose]_vars

\* One commit answered with nonce conflicts, under every policy of
\* TimedPolicies and every outcome of the jitter.
InitBackoff ==
    /\ txMiddleware = <<>>
    /\ nonceRetryStrategy \in TimedPolicies
    /\ NoCalls
    /\ Constructed(Url("u1"), None)

NextBackoff ==
    \/ CommitTxAsync(1, "t1", None)
    \/ \E result \in {OkResult, NonceResult} : SendResolve(1, result)
    \/ BackoffElapsed(1)

SpecBackoff == InitBackoff /\ [][NextBackoff]_vars

\* One commit, retried on nonce conflicts, while the application reassigns
\* client.txMiddleware or mutates a middleware list in place.
InitMutate ==
    /\ txMiddleware \in DefaultLists
    /\ nonceRetryStrategy \in {Policy(0), Policy(1)}
    /\ NoCalls
    /\ Constructed(Url("u1"), None)

NextMutate ==
    \/ \E opts \in {None, Some(<<"B">>)} : CommitTxAsync(1, "t1", opts)
    \/ MiddlewareResolve(1)
    \/ \E result \in {OkResult, NonceResult} : SendResolve(1, result)
    \/ BackoffElapsed(1)
    \/ \E list \in DefaultLists \cup {<<>>} : AssignTxMiddleware(list)
    \/ \E list \in Lists : MutateInPlace(1, list)

SpecMutate == InitMutate /\ [][NextMutate]_vars

(***************************************************************************)
(* Properties of the commit pipeline (SpecCommit)                          *)
(***************************************************************************)

\* C1: a commit whose every attempt got the check-phase result {code 1,
\* "sequence number does not match"} settles only after exactly retries+1
\* broadcast attempts (6 under the default policy), by rejecting with the
\* nonce-conflict error; no call ever makes more than retries+1 attempts.
C1_NonceConflictExhaustsRetries ==
    \A c \in Calls :
        LET cl == call[c]
            h  == hist[c]
        IN  /\ cl.attempts <= h.retries + 1
            /\ h.sends <= h.retries + 1
            /\ (h.allNonceCheck /\ cl.pc = "done") =>
                   /\ cl.attempts = h.retries + 1
                   /\ h.sends = h.retries + 1
                   /\ cl.settled.kind = "err"
                   /\ isInvalidTxNonceError(cl.settled)
                   /\ cl.settles = 1
            /\ (h.allNonceCheck /\ cl.attempts < h.retries + 1) => cl.settled = NoOutcome

C1_Witness ==
    \E c \in Calls :
        /\ call[c].pc = "done"
        /\ hist[c].allNonceCheck
        /\ hist[c].retries = DefaultRetries
        /\ hist[c].sends = DefaultRetries + 1

DeliverFailed(h) ==
    /\ h.lastStage = "sendResolve"
    /\ IsSome(h.lastResult)
    /\ CodeOrZero(Get(h.lastResult).deliver_tx.code) # 0

\* C2 as stated: an attempt whose deliver code is non-zero is the last attempt
\* of the call, whatever its check phase holds, and the call rejects.
C2_DeliverFailureNeverRetried ==
    \A c \in Calls :
        DeliverFailed(hist[c]) => call[c].pc = "done" /\ call[c].settled.kind = "err"

\* C2 (amended): an attempt whose deliver code is non-zero is the last attempt
\* of the call and the call rejects with a generic commit error, for every
\* deliver log and retry policy, unless the check phase of the same attempt
\* is the nonce conflict {code 1, "sequence number does not match"}: the check
\* phase is interpreted first, and that attempt is retried while retries remain.
C2_DeliverFailureUnlessNonceCheck ==
    \A c \in Calls :
        LET cl == call[c]
            h  == hist[c]
        IN  DeliverFailed(h) =>
                IF IsNonceCheck(Get(h.lastResult).check_tx)
                THEN IF cl.attempts <= h.retries
                     THEN cl.pc = "backoff" /\ cl.settled = NoOutcome
                     ELSE cl.pc = "done" /\ isInvalidTxNonceError(cl.settled)
                ELSE /\ cl.pc = "done"
                     /\ cl.settled.kind = "err"
                     /\ ~isInvalidTxNonceError(cl.settled)
                     /\ cl.settles = 1

C2_Witness ==
    \E c \in Calls :
        /\ DeliverFailed(hist[c])
        /\ Get(hist[c].lastResult).check_tx.code = Some(0)
        /\ Get(hist[c].lastResult).deliver_tx = [code |-> Some(1), log |-> Some(NonceLog), data |-> None]
        /\ hist[c].retries = DefaultRetries
        /\ call[c].attempts = 1
        /\ call[c].pc = "done"

\* C3 as stated: a further attempt is started only after an attempt that failed
\* with the nonce-conflict error produced by the Result Interpreter.
C3_RetryOnlyInterpreterNonceError ==
    \A c \in Calls :
        call[c].pc = "backoff" => hist[c].lastStage = "sendResolve"

\* C3 (amended): a further attempt is started only if the preceding attempt
\* failed with an Error whose message is 'Invalid tx nonce' (whether the
\* Result Interpreter produced it or a middleware or sendAsync rejected with
\* it) and retries remain; any other outcome ends the loop after that attempt
\* and the call settles, once, with exactly that attempt's value or error.
C3_RetryOnlyNonceError ==
    \A c \in Calls :
        LET cl == call[c]
            h  == hist[c]
            nonce == h.lastOutcome.kind = "err" /\ h.lastOutcome.isError
                     /\ h.lastOutcome.message = <<"Invalid tx nonce">>
        IN  /\ cl.pc = "backoff" => nonce /\ cl.attempts <= h.retries
            /\ (h.lastStage # "none" /\ ~(nonce /\ cl.attempts <= h.retries)) =>
                   /\ cl.pc = "done"
                   /\ cl.settled = h.lastOutcome
                   /\ cl.settles = 1
            /\ cl.pc = "done" => cl.settled = h.lastOutcome /\ h.lastStage # "none"
            /\ cl.pc # "done" => cl.settled = NoOutcome /\ cl.settles = 0

C3_Witness ==
    \E c \in Calls :
        /\ call[c].pc = "done"
        /\ hist[c].lastStage = "sendReject"
        /\ call[c].settled = Thrown(FALSE, INVALID_TX_NONCE_ERROR)
        /\ call[c].attempts = 1
        /\ hist[c].retries = DefaultRetries

\* C4 as stated: whatever error a middleware raises, the commit makes no
\* further attempt and rejects with that error.
C4_MiddlewareErrorNeverRetried ==
    \A c \in Calls :
        hist[c].lastStage = "middleware" =>
            call[c].pc = "done" /\ call[c].settled = hist[c].lastOutcome

\* C4 (amended): if middleware Mi raises an error, no later middleware of that
\* attempt runs and no broadcast_tx_commit is sent for that attempt; the
\* commit makes no further attempt and rejects with the error Mi raised,
\* except when that error is an Error whose message is 'Invalid tx nonce':
\* the commit then retries like any nonce conflict while retries remain, and
\* rejects with Mi's error once they are exhausted.
C4_MiddlewareErrorAborts ==
    \A c \in Calls :
        LET cl == call[c]
            h  == hist[c]
        IN  h.lastStage = "middleware" =>
                /\ ~h.sentThisAttempt
                /\ Len(h.mwRun) = cl.i + 1
                /\ cl.i < Len(cl.middleware)
                /\ h.mwRun[Len(h.mwRun)].mw = cl.middleware[cl.i + 1]
                /\ IF isInvalidTxNonceError(h.lastOutcome) /\ cl.attempts <= h.retries
                   THEN cl.pc = "backoff" /\ cl.settled = NoOutcome
                   ELSE cl.pc = "done" /\ cl.settled = h.lastOutcome
                        /\ cl.settled.kind = "err" /\ cl.settles = 1

C4_Witness ==
    \E c \in Calls :
        /\ hist[c].lastStage = "middleware"
        /\ Len(call[c].middleware) = 2
        /\ call[c].i = 0
        /\ call[c].pc = "done"
        /\ call[c].settled = NewError(<<"boom">>)
        /\ hist[c].retries = DefaultRetries
        /\ hist[c].sends = 0

\* C5: the payload of broadcast_tx_commit is the encoding of Mn(...(M1(b))),
\* where [M1..Mn] is the per-call override when one is supplied (also an empty
\* one) and the client's txMiddleware otherwise, and b the serialized
\* transaction; within an attempt each Mi is invoked once, in list order, on
\* the output of M(i-1).
C5_PayloadIsPipelineOutput ==
    \A c \in Calls :
        LET cl == call[c]
            h  == hist[c]
            list == IF h.opts # None THEN h.opts[1] ELSE txMiddleware
            b == serializeBinary(cl.tx)
            invoked == IF cl.pc = "middleware" THEN cl.i + 1 ELSE Len(h.mwRun)
        IN  cl.pc # "idle" =>
                /\ Len(h.mwRun) = invoked
                /\ Len(h.mwRun) <= Len(list)
                /\ \A j \in 1..Len(h.mwRun) :
                       /\ h.mwRun[j].mw = list[j]
                       /\ h.mwRun[j].input = ApplyAll(SubSeq(list, 1, j - 1), b)
                /\ h.sentThisAttempt =>
                       /\ Len(h.mwRun) = Len(list)
                       /\ h.payload = Some(Uint8ArrayToB64(ApplyAll(list, b)))
                       /\ B64ToUint8Array(Get(h.payload)) = ApplyAll(list, b)

C5_Witness ==
    \E c \in Calls :
        /\ call[c].pc = "send"
        /\ txMiddleware = <<"A">>
        /\ hist[c].opts = Some(<<"B", "A">>)
        /\ call[c].tx = "t2"
        /\ B64ToUint8Array(Get(hist[c].payload)) = <<102, 2, 250, 7>>

(***************************************************************************)
(* Properties of the event side (SpecEvents)                               *)
(***************************************************************************)
ContractCount == Count(listeners, ContractKind)
OtherChannels == DOMAIN chan \ {readClient}

\* C6: on a client that has not been disconnected, the message handler is
\* attached to the read channel exactly once while at least one Contract
\* consumer is registered and not at all otherwise; an operation calls
\* on(Message) exactly when it takes the Contract consumer count from 0 to 1
\* and removeListener(Message) exactly when it takes it from 1 to 0, so
\* registrations of other kinds, a second Contract registration (also of the
\* same function) and the removal of one of two never attach or detach.
C6_AttachedIffContractConsumers ==
    /\ [](disconnects = 0 =>
            /\ msgListeners[readClient] = (IF ContractCount >= 1 THEN 1 ELSE 0)
            /\ \A ch \in OtherChannels : msgListeners[ch] = 0)
    /\ [][disconnects' = 0 =>
            /\ chan'[readClient].ons =
                   (IF ContractCount = 0 /\ ContractCount' >= 1 THEN 1 ELSE 0)
            /\ chan'[readClient].offs =
                   (IF ContractCount >= 1 /\ ContractCount' = 0 THEN 1 ELSE 0)
            /\ \A ch \in OtherChannels : chan'[ch].ons = 0 /\ chan'[ch].offs = 0]_vars

C6_Witness ==
    /\ disconnects = 0
    /\ ContractCount = 2
    /\ listeners[ContractKind][1].fn = listeners[ContractKind][2].fn
    /\ msgListeners[readClient] = 1
    /\ chan[readClient].ons = 0

\* the callback of a notification with a result and no error payload that
\* arrived while n >= 1 Contract consumers were registered on a live client
ContractNote ==
    /\ ~note.returned
    /\ note.result
    /\ ~note.error
    /\ note.live
    /\ Len(note.regs) >= 1

C8_SynchronousInOrder ==
    /\ \A i \in 1..Len(seen) : ~seen[i].late /\ seen[i].note = noteCount
    /\ \A i \in 1..Len(dispatch) : dispatch[i].note = noteCount
    /\ dispatch # <<>> => ~note.returned /\ note.id = noteCount
    /\ note.returned => seen = <<>>

C8_Witness ==
    /\ noteCount = 2
    /\ Len(seen) = 2
    /\ seen[1].note = 2
    /\ ~seen[2].late
    /\ dispatch = <<>>

\* C9: a notification is translated into at most one client event: an Error
\* event if it carries an error payload, a Contract event if it carries a
\* result payload and no error payload, none if it carries neither; a
\* Contract event never comes from a notification with an error payload.
C9_AtMostOneEvent ==
    ~note.returned =>
        /\ Len(note.emits) <= 1
        /\ note.attached >= 1 =>
               note.emits = (IF note.error THEN <<"error">>
                             ELSE IF note.result THEN <<"contractEvent">>
                             ELSE <<>>)
        /\ \A i \in 1..Len(seen) : seen[i].kind = "contractEvent" => ~note.error
        /\ \A i \in 1..Len(seen) : seen[i].kind = "error" => note.error

C9_Witness ==
    /\ ~note.returned
    /\ note.error
    /\ note.result
    /\ note.emits = <<ErrorKind>>
    /\ Len(seen) = 1
    /\ seen[1].kind = ErrorKind

\* C10: one disconnect() call closes each distinct channel exactly once (a
\* channel that plays both roles receives one disconnect call, not two) and
\* leaves no registration of any kind on the client.
C10_DisconnectClosesOnce ==
    /\ [](\A ch \in DOMAIN chan : chan[ch].closes = disconnects)
    /\ [][disconnects' = disconnects + 1 =>
            /\ \A ch \in DOMAIN chan : chan'[ch].closes = chan[ch].closes + 1
            /\ \A k \in Kinds : listeners'[k] = <<>>
            /\ ~hooks']_vars

C10_Witness ==
    /\ disconnects = 1
    /\ readClient = writeClient
    /\ chan[writeClient].closes = 1
    /\ Total(listeners) = 0

(***************************************************************************)
(* Properties of the channels (SpecNet)                                    *)
(***************************************************************************)

\* C11: a lifecycle signal (connected, disconnected, transport error) raised
\* by a channel makes the client emit exactly one event, of the signal's kind
\* and tagged with the URL that channel reports: one event, not two, when one
\* instance plays both roles, and never an event tagged with the URL of the
\* other of two channels.
C11_SignalForwardedOnce ==
    ~note.returned =>
        /\ note.emits = <<[kind |-> note.kind, url |-> note.ch.url]>>
        /\ \A other \in DOMAIN chan :
               other.url # note.ch.url =>
                   \A i \in 1..Len(note.emits) : note.emits[i].url # other.url

C11_Witness ==
    /\ ~note.returned
    /\ readClient = writeClient
    /\ note.ch = writeClient
    /\ note.kind = ConnectedKind
    /\ Len(note.emits) = 1

\* the endpoint a constructor argument names
EndpointOf(arg) == IF arg.type = "string" THEN arg.ref ELSE ClientUrl(arg.ref)

\* C12 as stated: the two roles are one channel instance exactly when no read
\* endpoint is supplied or the supplied one names the endpoint of the write
\* argument.
C12_SharedIffSameEndpoint ==
    (readClient = writeClient) <=>
        (~IsSome(ctorArgs.read) \/ EndpointOf(Get(ctorArgs.read)) = EndpointOf(ctorArgs.write))

\* C12 (amended): for every combination of constructor arguments the two
\* roles are one channel instance exactly when the read argument is omitted
\* or is the very value passed as write argument (the same URL string or the
\* same channel object), and two instances otherwise, also when both name the
\* same URL; each instance reports the URL of its argument, and the channel
\* references are never reassigned after construction.
C12_SharedIffSameArgument ==
    /\ []((readClient = writeClient) <=>
              (~IsSome(ctorArgs.read) \/ Get(ctorArgs.read) = ctorArgs.write))
    /\ [](/\ writeClient.url = EndpointOf(ctorArgs.write)
          /\ readClient.url = EndpointOf(IF IsSome(ctorArgs.read) THEN Get(ctorArgs.read)
                                         ELSE ctorArgs.write))
    /\ [][writeClient' = writeClient /\ readClient' = readClient]_vars

C12_Witness ==
    /\ ctorArgs = [write |-> Client("cA"), read |-> Some(Url("u1"))]
    /\ readClient # writeClient
    /\ readClient.url = writeClient.url
    /\ chan[readClient].wired = 1
    /\ disconnects = 1

\* C16 as stated: whenever a channel raises a transport error, in every
\* client state, the Error event reaches each registered Error consumer, no
\* exception leaves the client's handler, and no pending commit or read-side
\* call is resolved or rejected by it.
C16_TransportErrorOnlyObserved ==
    (~note.returned /\ note.kind = ErrorKind) =>
        /\ ~note.threw
        /\ [i \in 1..Len(seen) |-> seen[i].reg] \o [i \in 1..Len(dispatch) |-> dispatch[i].reg.id]
               = [i \in 1..Len(note.regs) |-> note.regs[i].id]
        /\ note.before = <<call, reads>>

(***************************************************************************)
(* Properties of the call routing (SpecCalls)                              *)
(***************************************************************************)
\* read-side calls of method m made so far
ReadCallsOf(m) == Cardinality({r \in ReadIds : reads[r].pc # "idle" /\ reads[r].method = m})

\* C13 as stated: with distinct channels, commits and nonce lookups are sent
\* on the write channel only and every other call on the read channel only.
C13_CommitAndNonceOnWrite ==
    readClient # writeClient =>
        /\ \A m \in Methods : rpc[readClient][m] > 0 => m \notin {CommitMethod, "nonce"}
        /\ \A m \in Methods : rpc[writeClient][m] > 0 => m \in {CommitMethod, "nonce"}
        /\ msgListeners[writeClient] = 0

\* C13 (amended): with distinct channels, the write channel receives the
\* broadcast_tx_commit calls of commits and nothing else, and the read
\* channel receives every other call (queries, receipts, logs, filters,
\* subscriptions and nonce lookups) and never a commit; the push-notification
\* handler is attached to the read channel only.
C13_CommitOnWriteRestOnRead ==
    readClient # writeClient =>
        /\ \A m \in Methods :
               rpc[writeClient][m] = (IF m = CommitMethod THEN hist[1].sends ELSE 0)
        /\ \A m \in Methods :
               rpc[readClient][m] = (IF m = CommitMethod THEN 0 ELSE ReadCallsOf(m))
        /\ msgListeners[writeClient] = 0
        /\ chan[writeClient].ons = 0
        /\ msgListeners[readClient] = (IF ContractCount >= 1 THEN 1 ELSE 0)

C13_Witness ==
    /\ readClient # writeClient
    /\ rpc[writeClient][CommitMethod] = 2
    /\ rpc[readClient]["nonce"] = 1
    /\ msgListeners[readClient] = 1

\* C14: with distinct channels, a nonce lookup makes exactly one call on the
\* read channel, when it is invoked, and none on the write channel, also when
\* it is invoked while a commit is awaiting a middleware; it makes no further
\* call when it resolves.
C14_NonceLookupOnReadChannel ==
    /\ [][\A r \in ReadIds :
            (/\ readClient # writeClient
             /\ reads[r].pc = "idle"
             /\ reads'[r].pc = "pending"
             /\ reads'[r].method = "nonce") =>
                /\ rpc'[readClient]["nonce"] = rpc[readClient]["nonce"] + 1
                /\ \A m \in Methods \ {"nonce"} : rpc'[readClient][m] = rpc[readClient][m]
                /\ rpc'[writeClient] = rpc[writeClient]]_vars
    /\ [](\A r \in ReadIds :
            (readClient # writeClient /\ reads[r].pc # "idle" /\ reads[r].method = "nonce") =>
                /\ rpc[readClient]["nonce"] = 1
                /\ rpc[writeClient]["nonce"] = 0)

C14_Witness ==
    /\ readClient # writeClient
    /\ reads[1].pc = "done"
    /\ reads[1].method = "nonce"
    /\ reads[1].inHandle
    /\ rpc[readClient]["nonce"] = 1
    /\ rpc[writeClient]["nonce"] = 0

\* C18: queryAsync and getEvmTxReceiptAsync each make exactly one call, on the
\* read channel; queryAsync resolves with no value (undefined) when the raw
\* result is absent or empty and with the bytes the result encodes otherwise;
\* getEvmTxReceiptAsync resolves with null, not with a receipt, when the raw
\* result is absent or empty.
C18_QueryAndReceiptResults ==
    \A r \in ReadIds :
        LET rd == reads[r]
            empty == rd.result = None \/ rd.result = Some(<<>>)
        IN  /\ (rd.pc # "idle" /\ rd.method \in {"query", "evmtxreceipt"}) =>
                   /\ rpc[readClient][rd.method] = 1
                   /\ readClient # writeClient => rpc[writeClient][rd.method] = 0
            /\ (rd.pc = "done" /\ rd.method = "query") =>
                   IF empty THEN rd.settled = Some([type |-> "undefined", value |-> <<>>])
                   ELSE /\ Get(rd.settled).type = "bytes"
                        /\ Uint8ArrayToB64(Get(rd.settled).value) = Get(rd.result)
            /\ (rd.pc = "done" /\ rd.method = "evmtxreceipt") =>
                   IF empty THEN rd.settled = Some([type |-> "null", value |-> <<>>])
                   ELSE /\ Get(rd.settled).type = "receipt"
                        /\ Uint8ArrayToB64(Get(rd.settled).value) = Get(rd.result)

C18_Witness ==
    /\ reads[1].pc = "done"
    /\ reads[1].method = "evmtxreceipt"
    /\ reads[1].result = Some(<<>>)
    /\ Get(reads[1].settled).type = "null"

(***************************************************************************)
(* Properties of concurrent commits (SpecConcurrent)                       *)
(***************************************************************************)
\* the last finished attempt of the call failed with the retryable error
\* while the call had retries left
RetryDue(cl, h) ==
    /\ h.lastStage # "none"
    /\ isInvalidTxNonceError(h.lastOutcome)
    /\ cl.attempts <= h.retries

\* C15: with two commits in flight under any interleaving, each call has its
\* own retry budget, spent by its own attempts only (attempts made or
\* scheduled plus retries left is always maxRetries+1); whether a call is running an attempt,
\* waiting in backoff or settled is decided by the outcome of its own last
\* attempt and its own budget, whatever the state of the other call; a step
\* of one call changes nothing of the other; a settled call carries the
\* outcome of its own last attempt.
C15_ConcurrentCommitsIndependent ==
    /\ [](\A c \in DOMAIN call :
            LET cl == call[c]
                h  == hist[c]
            IN  cl.pc # "idle" =>
                    /\ cl.attempts <= h.retries + 1
                    /\ cl.timeouts + cl.attempts + (IF cl.pc = "backoff" THEN 1 ELSE 0)
                           = h.retries + 1
                    /\ cl.pc \in {"middleware", "send"} <=> h.lastStage = "none"
                    /\ cl.pc = "backoff" <=> RetryDue(cl, h)
                    /\ cl.pc = "done" <=> (h.lastStage # "none" /\ ~RetryDue(cl, h))
                    /\ cl.pc = "done" => cl.settled = h.lastOutcome /\ cl.settles = 1)
    /\ [][\A c \in DOMAIN call, d \in DOMAIN call :
            (c # d /\ call'[c] # call[c]) => call'[d] = call[d] /\ hist'[d] = hist[d]]_vars

C15_Witness ==
    /\ call[1].pc = "done"
    /\ isInvalidTxNonceError(call[1].settled)
    /\ call[1].attempts = 3
    /\ call[2].pc = "backoff"
    /\ call[2].attempts = 1
    /\ call[2].timeouts = 1

\* C17: provided every middleware call and every write-channel call of a
\* commit completes (and the backoff timers fire), every commitTxAsync call
\* that was made eventually settles; a call settles exactly once, by
\* resolving or by rejecting, never both and never twice, and once it has
\* settled nothing of it changes: no further attempt is started.
C17_SettlesExactlyOnce ==
    /\ \A c \in TwoCalls : (call[c].pc # "idle") ~> (call[c].pc = "done")
    /\ [](\A c \in TwoCalls :
            /\ call[c].settles <= 1
            /\ call[c].pc = "done" <=> call[c].settles = 1
            /\ call[c].settles = 1 <=> call[c].settled.kind \in {"ok", "err"})
    /\ [][\A c \in TwoCalls :
            call[c].pc = "done" => call'[c] = call[c] /\ hist'[c] = hist[c]]_vars

C17_Witness ==
    /\ call[1].pc = "done"
    /\ call[1].settles = 1
    /\ call[1].settled.kind = "ok"
    /\ call[1].attempts = 3
    /\ call[2].pc = "done"
    /\ call[2].settled.kind = "err"

(***************************************************************************)
(* Properties of the Result Interpreter (SpecInterpret)                    *)
(***************************************************************************)
\* the attempt of call 1 was answered with a two-phase result
Interpreted == hist[1].lastStage = "sendResolve" /\ IsSome(hist[1].lastResult)

Decodes(outcome, data) ==
    /\ outcome.kind = "ok"
    /\ IsSome(outcome.data)
    /\ Uint8ArrayToB64(Get(outcome.data)) = data

C20_AttemptsNeverOverlap ==
    /\ [](\A c \in Calls :
            /\ call[c].pc \in {"middleware", "send"} <=>
                   (call[c].attempts >= 1 /\ hist[c].lastStage = "none")
            /\ call[c].pc = "backoff" =>
                   hist[c].lastStage # "none" /\ hist[c].lastOutcome.kind = "err")
    /\ [][\A c \in Calls :
            /\ call'[c].attempts # call[c].attempts =>
                   /\ call'[c].attempts = call[c].attempts + 1
                   /\ call[c].pc \in {"idle", "backoff"}
                   /\ call'[c].pc \in {"middleware", "send"}
            /\ (call[c].pc = "backoff" /\ call'[c] # call[c]) =>
                   call'[c].attempts = call[c].attempts + 1]_vars

C20_Witness ==
    \E c \in Calls :
        /\ call[c].pc = "middleware"
        /\ call[c].attempts = 3
        /\ hist[c].sends = 2
        /\ hist[c].lastStage = "none"

(***************************************************************************)
(* The middleware list of one call (SpecMutate)                            *)
(***************************************************************************)
\* C21: every attempt of a commitTxAsync call applies the middleware list that
\* was in effect when the call was made, in its order, whatever the
\* application does to client.txMiddleware or to the list itself while the
\* call is suspended: the middleware run so far in the current attempt are a
\* prefix of that list, and the whole list has run when the attempt sends.
C21_SameMiddlewareEveryAttempt ==
    \A c \in Calls :
        LET run == hist[c].mwRun
            list == hist[c].list
        IN  /\ Len(run) <= Len(list)
            /\ \A j \in 1..Len(run) : j <= Len(list) => run[j].mw = list[j]
            /\ call[c].pc = "send" => Len(run) = Len(list)

(***************************************************************************)
(* Retries and the pipeline (SpecCommit)                                   *)
(***************************************************************************)
\* every attempt starts from the serialized transaction: its first middleware
\* gets those bytes, and what it sends is the whole list applied to them, the
\* same payload as the attempt before it sent
RestartsFromOriginal ==
    [][\A c \in Calls :
          LET list == hist'[c].list
              b == serializeBinary(call'[c].tx)
          IN  /\ call'[c].attempts # call[c].attempts =>
                     /\ call'[c].attempts = call[c].attempts + 1
                     /\ list # <<>> => hist'[c].mwRun = <<[mw |-> list[1], input |-> b]>>
              /\ hist'[c].sends # hist[c].sends =>
                     /\ [j \in 1..Len(hist'[c].mwRun) |-> hist'[c].mwRun[j].mw] = list
                     /\ hist'[c].payload = Some(Uint8ArrayToB64(ApplyAll(list, b)))
                     /\ hist[c].sends > 0 => hist'[c].payload = hist[c].payload]_vars

\* C22 as stated: every attempt restarts the pipeline from the serialized
\* transaction, and each of the n middleware is invoked exactly once per
\* attempt, attempts x n invocations in total.
C22_WholeListEveryAttempt ==
    /\ RestartsFromOriginal
    /\ [](\A c \in Calls :
            call[c].pc \in {"backoff", "done"} =>
                hist[c].mwTotal = call[c].attempts * Len(hist[c].list))

\* C22 (amended): every attempt restarts the pipeline from the serialized
\* transaction, so an attempt never sends bytes derived from the middleware
\* output of the attempt before it; each middleware is invoked exactly once in
\* an attempt that reaches the broadcast and at most once in an attempt that
\* a failing middleware cuts short: the invocations total attempts x n when
\* every attempt reached the broadcast, and lie between sends x n and
\* attempts x n otherwise.
C22_RetryRestartsPipeline ==
    /\ RestartsFromOriginal
    /\ [](\A c \in Calls :
            LET n == Len(hist[c].list)
            IN  /\ hist[c].sends * n <= hist[c].mwTotal
                /\ hist[c].mwTotal <= call[c].attempts * n
                /\ hist[c].sends = call[c].attempts =>
                       hist[c].mwTotal = call[c].attempts * n)

C22_Witness ==
    \E c \in Calls :
        /\ call[c].pc = "send"
        /\ call[c].attempts = 3
        /\ hist[c].sends = 3
        /\ hist[c].list = <<"B", "A">>
        /\ hist[c].mwTotal = 6
        /\ B64ToUint8Array(Get(hist[c].payload)) = <<101, 1, 7>>

(***************************************************************************)
(* Backoff durations (SpecBackoff)                                         *)
(***************************************************************************)
\* C23: under every policy with minTimeout <= maxTimeout each backoff between
\* two attempts lasts at least minTimeout and at most maxTimeout, with or
\* without jitter; without jitter the k-th backoff lasts minTimeout doubled
\* k-1 times, capped at maxTimeout (500, 1000, 2000, 4000, 5000 under the
\* default bounds); a call never backs off more often than the policy has
\* retries.
C23_BackoffWithinBounds ==
    \A c \in Calls :
        LET cl == call[c]
            p == nonceRetryStrategy
            backoffs == IF cl.pc = "backoff" THEN cl.attempts
                        ELSE IF cl.attempts = 0 THEN 0 ELSE cl.attempts - 1
            doubled == p.minTimeout * Pow(2, cl.attempts - 1)
        IN  /\ backoffs <= p.retries
            /\ cl.pc = "backoff" =>
                   /\ p.minTimeout <= cl.wait
                   /\ cl.wait <= p.maxTimeout
                   /\ ~p.randomize =>
                          cl.wait = IF doubled <= p.maxTimeout THEN doubled ELSE p.maxTimeout
                   /\ (~p.randomize /\ p.minTimeout = 500 /\ p.maxTimeout = 5000) =>
                          cl.wait = <<500, 1000, 2000, 4000, 5000>>[cl.attempts]

C23_Witness ==
    \E c \in Calls :
        /\ nonceRetryStrategy =
               [retries |-> 5, minTimeout |-> 500, maxTimeout |-> 5000, randomize |-> TRUE]
        /\ call[c].pc = "backoff"
        /\ call[c].attempts = 5
        /\ call[c].wait = 5000
        /\ hist[c].sends = 5

(***************************************************************************)
(* Notifications and disconnect() (SpecEvents)                             *)
(***************************************************************************)
\* C24: once disconnect() has returned, emitContractEvent is attached to no
\* channel, however many Contract consumers were registered before the call,
\* and the registration hooks are gone, so that a Contract consumer registered
\* afterwards does not attach it again: a notification that arrives after
\* disconnect() finds no handler, makes no event and reaches no consumer.
C24_DetachedAfterDisconnect ==
    disconnects > 0 =>
        /\ \A ch \in DOMAIN msgListeners : msgListeners[ch] = 0
        /\ ~hooks
        /\ \A ch \in DOMAIN chan : chan[ch].ons = 0
        /\ (~note.returned /\ ~note.live) =>
               /\ note.attached = 0
               /\ note.emits = <<>>
               /\ dispatch = <<>>
               /\ seen = <<>>

C24_Witness ==
    /\ disconnects = 1
    /\ Count(listeners, ContractKind) = 2
    /\ ~note.returned
    /\ ~note.live
    /\ note.result
    /\ msgListeners[readClient] = 0

\* C25: a notification that arrives while no Contract consumer is registered
\* is not translated: the client emits no event of any kind for it, so its
\* error payload does not reach the Error consumers registered at that
\* moment; every event made from a notification has found a Contract consumer
\* registered.
C25_TranslatedOnlyWithContractConsumers ==
    ~note.returned =>
        /\ Len(note.regs) = 0 =>
               /\ note.attached = 0
               /\ note.emits = <<>>
               /\ ~note.threw
               /\ dispatch = <<>>
               /\ seen = <<>>
        /\ (note.emits # <<>> \/ seen # <<>>) => Len(note.regs) >= 1

C25_Witness ==
    /\ ~note.returned
    /\ note.error
    /\ note.live
    /\ note.regs = <<>>
    /\ Count(listeners, ErrorKind) = 2
    /\ note.emits = <<>>
    /\ dispatch = <<>>

(***************************************************************************)
(* disconnect() and the consumers (SpecClose)                              *)
(***************************************************************************)
\* a consumer callback is called in this step
Invoked == Len(seen') = Len(seen) + 1

\* C26 as stated: once disconnect() has started, no callback of a consumer
\* registered before the call is invoked.
C26_NoCallbackAfterDisconnect ==
    [][(disconnects > 0 /\ Invoked) => Head(dispatch).reg.epoch >= disconnects]_vars

\* C26 (amended): disconnect() removes every consumer registration before it
\* closes a channel, so no event raised after disconnect() has started, the
\* Disconnected or Error events that the close calls raise included, reaches
\* a consumer registered before the call: every registration in the table
\* was made after the latest disconnect(), and the table is empty while the
\* channels are being closed.  The only callbacks of earlier consumers that
\* are invoked after disconnect() has started are those still pending in an
\* emit that was in progress when a consumer callback called disconnect();
\* they run once disconnect() has returned.
C26_RemovedBeforeClose ==
    /\ [](Closing => listeners = NoListeners /\ ~hooks)
    /\ [](\A k \in ClientEvents : \A i \in 1..Len(listeners[k]) :
              listeners[k][i].epoch = disconnects)
    /\ [][(Invoked /\ Head(dispatch).reg.epoch < disconnects) =>
             /\ Head(dispatch).note = note.id
             /\ ~note.returned
             /\ seen # <<>>
             /\ ~Closing]_vars
    /\ [][disconnects' # disconnects =>
             /\ listeners' = NoListeners
             /\ \A ch \in DOMAIN chan : chan'[ch].closes = chan[ch].closes]_vars

C26_Witness ==
    /\ Closing
    /\ chan[writeClient].closes = 1
    /\ readClient # writeClient
    /\ ~note.returned
    /\ note.epoch = 1
    /\ note.kind = DisconnectedKind
    /\ note.ch = writeClient
    /\ dispatch = <<>>
    /\ seen = <<>>

(***************************************************************************)
(* Absent and empty results (SpecAbsent)                                   *)
(***************************************************************************)
\* C27: a broadcast answered with no result (undefined, null) or with an
\* empty object makes the attempt fail, never resolve; the failure is an
\* Error other than the nonce conflict, so commitTxAsync rejects with it at
\* once, whatever retries are left, and no further attempt is made.
C27_AbsentResultRejectsOnce ==
    \A c \in Calls :
        (hist[c].lastStage = "sendResolve"
            /\ hist[c].lastResult \in {None, Some(EmptyObject)}) =>
            /\ hist[c].lastOutcome.kind = "err"
            /\ hist[c].lastOutcome.isError
            /\ ~isInvalidTxNonceError(hist[c].lastOutcome)
            /\ call[c].pc = "done"
            /\ call[c].settled = hist[c].lastOutcome
            /\ call[c].settles = 1
            /\ hist[c].sends = call[c].attempts

C27_Witness ==
    \E c \in Calls :
        /\ hist[c].lastStage = "sendResolve"
        /\ hist[c].lastResult = Some(EmptyObject)
        /\ call[c].pc = "done"
        /\ call[c].attempts = 2
        /\ call[c].timeouts = 4
        /\ call[c].settled.kind = "err"

====
